---- MODULE Spec2Model ----
(***************************************************************************)
(* Model of case_assignment_v2.py: a PDF is read, its text is split into   *)
(* paragraphs, over-long paragraphs are cut into word windows, every chunk *)
(* is classified by one service call, and the (chunk, topic) rows go to a  *)
(* CSV file.                                                               *)
(*                                                                         *)
(* A Python string is a sequence of symbols.  A symbol is either one of    *)
(* the whitespace characters " " and "\n" or a piece of text without       *)
(* whitespace ("a", "Short", "one.").  Neighbouring non-whitespace symbols *)
(* belong to the same word, exactly as neighbouring letters do.            *)
(***************************************************************************)
EXTENDS Integers, Sequences, FiniteSets, TLC

\* ---------------------------------------------------------------- bounds
\* longest raw text over RawAlphabet given to the segmenter
MaxLen == 7
\* most paragraphs / most words per paragraph of the generated documents
MaxParas == 3
MaxWords == 5
\* longest raw text over RawAlphabet run through the whole pipeline
MaxPipeLen == 4

\* ------------------------------------------------------- string helpers
Whitespace == {" ", "\n"}

IsSpace(c) == c \in Whitespace

MinOf(S) == CHOOSE x \in S : \A y \in S : x <= y

MaxOf(S) == CHOOSE x \in S : \A y \in S : x >= y

\* a regex match of \n\s*\n can start at position i of s
MatchAt(s, i) ==
    /\ s[i] = "\n"
    /\ \E j \in (i + 1)..Len(s) :
          /\ s[j] = "\n"
          /\ \A m \in (i + 1)..(j - 1) : IsSpace(s[m])

\* last position of the (greedy) match of \n\s*\n that starts at i
MatchEnd(s, i) ==
    MaxOf({j \in (i + 1)..Len(s) :
              /\ s[j] = "\n"
              /\ \A m \in (i + 1)..(j - 1) : IsSpace(s[m])})

RECURSIVE ReSplitFrom(_, _)
\* re.split(r'\n\s*\n', s), for the part of s that starts at position from
ReSplitFrom(s, from) ==
    LET starts == {i \in from..Len(s) : MatchAt(s, i)}
    IN  IF starts = {}
        THEN <<SubSeq(s, from, Len(s))>>
        ELSE LET i == MinOf(starts)
                 j == MatchEnd(s, i)
             IN  <<SubSeq(s, from, i - 1)>> \o ReSplitFrom(s, j + 1)

ReSplit(s) == ReSplitFrom(s, 1)

\* str.strip()
Strip(s) ==
    LET idx == {i \in 1..Len(s) : ~IsSpace(s[i])}
    IN  IF idx = {} THEN <<>> ELSE SubSeq(s, MinOf(idx), MaxOf(idx))

RECURSIVE SplitFrom(_, _)
\* str.split() without arguments, for the part of s that starts at from
SplitFrom(s, from) ==
    LET black == {i \in from..Len(s) : ~IsSpace(s[i])}
    IN  IF black = {}
        THEN <<>>
        ELSE LET b == MinOf(black)
                 white == {i \in b..Len(s) : IsSpace(s[i])}
                 e == IF white = {} THEN Len(s) ELSE MinOf(white) - 1
             IN  <<SubSeq(s, b, e)>> \o SplitFrom(s, e + 1)

Words(s) == SplitFrom(s, 1)

RECURSIVE JoinNoSeparator(_)
JoinNoSeparator(ws) ==
    IF ws = <<>> THEN <<>> ELSE ws[1] \o JoinNoSeparator(Tail(ws))

RECURSIVE Join(_)
\* " ".join(ws)
Join(ws) ==
    IF ws = <<>> THEN <<>>
    ELSE IF Len(ws) = 1 THEN ws[1]
    ELSE ws[1] \o <<" ">> \o Join(Tail(ws))

RECURSIVE SumLen(_)
\* sum(len(x) for x in ss)
SumLen(ss) == IF ss = <<>> THEN 0 ELSE Len(ss[1]) + SumLen(Tail(ss))

\* ------------------------------------------------ split_into_paragraphs
RetainedAlways(p) == TRUE

\* the filter "if p.strip()" of the paragraph split
Retained(p) == Strip(p) # <<>>

\* paragraphs = [p.strip() for p in re.split(...) if p.strip()]
ParagraphSplit(text) ==
    LET pieces == ReSplit(text)
        F[i \in 0..Len(pieces)] ==
            IF i = 0 THEN <<>>
            ELSE IF Retained(pieces[i]) THEN Append(F[i - 1], Strip(pieces[i]))
            ELSE F[i - 1]
    IN  F[Len(pieces)]

\* total_words = sum(len(p.split()) for p in paragraphs)
TotalWords(ps) == SumLen([i \in 1..Len(ps) |-> Words(ps[i])])

\* avg_words = total_words / num_paragraphs if num_paragraphs > 0 else 0,
\* as the fraction num / den
AvgWords(total, num) ==
    IF num > 0 THEN [num |-> total, den |-> num] ELSE [num |-> 0, den |-> 1]

\* length_threshold = avg_words + ((avg_words * 20) / 100), as a fraction.
\* Python computes avg_words and length_threshold in binary floating point;
\* for word counts of this size the comparison with word_count and the
\* truncation int(avg_words) give the same results as the exact fractions.
LengthThreshold(avg) == [num |-> 100 * avg.num + 20 * avg.num, den |-> 100 * avg.den]

IsTooLongOrEqual(wc, threshold) == wc * threshold.den >= threshold.num

\* word_count > length_threshold
IsTooLong(wc, threshold) == wc * threshold.den > threshold.num

WindowSizeRoundedUp(avg) == (avg.num + avg.den - 1) \div avg.den

\* int(avg_words)
WindowSize(avg) == avg.num \div avg.den

WindowOneMore(ws, s, w) == SubSeq(ws, s + 1, MinOf({s + w + 1, Len(ws)}))

\* words[start:start + int(avg_words)]
Window(ws, s, w) == SubSeq(ws, s + 1, MinOf({s + w, Len(ws)}))

\* ------------------------------------------------- classify_paragraphs
\* the four topics named in the prompt
LabelSet == {<<"Politics">>, <<"Sports">>, <<"Economics">>, <<"Entertainment">>}

\* textual contents the service may answer with
Responses == {<<"Politics">>, <<" ", "Sports", "\n">>, <<"Technology">>}

\* ways a call fails: the request raises, or the completion carries no
\* text (content is None and .strip() raises AttributeError)
Failures == {"raised", "no_content"}

TopicUntrimmed(content) == content

\* topic = completion.choices[0].message.content.strip()
TopicOf(content) == Strip(content)

SentinelLowerCase == <<"error">>

\* topics.append("Error")
Sentinel == <<"Error">>

\* -------------------------------------------------------------- inputs
RawAlphabet == {"a", " ", "\n"}

RawTexts(n) == UNION {[1..k -> RawAlphabet] : k \in 0..n}

\* the j-th word of the k-th paragraph of a generated document
WordName(k, j) == <<"p" \o ToString(k) \o "w" \o ToString(j)>>

RECURSIVE GenParagraph(_, _)
\* paragraph k with c distinct words separated by single blanks
GenParagraph(k, c) ==
    IF c = 1 THEN WordName(k, 1)
    ELSE GenParagraph(k, c - 1) \o <<" ">> \o WordName(k, c)

RECURSIVE GenTextFrom(_, _)
GenTextFrom(counts, k) ==
    IF k > Len(counts) THEN <<>>
    ELSE IF k = Len(counts) THEN GenParagraph(k, counts[k])
    ELSE GenParagraph(k, counts[k]) \o <<"\n", "\n">> \o GenTextFrom(counts, k + 1)

\* documents of 1..MaxParas paragraphs of 1..MaxWords words each
GenTexts ==
    {GenTextFrom(counts, 1) :
        counts \in UNION {[1..n -> 1..MaxWords] : n \in 1..MaxParas}}

\* the example document of the specification
ExampleText ==
    << "Short", " ", "one.", "\n", "\n",
       "Short", " ", "two.", "\n", "\n",
       "This", " ", "is", " ", "a", " ", "much", " ", "longer", " ",
       "paragraph", " ", "with", " ", "many", " ", "many", " ", "more", " ",
       "words", " ", "than", " ", "the", " ", "others", " ", "combined", " ",
       "here." >>

\* texts given to split_into_paragraphs alone
SegTexts == RawTexts(MaxLen) \cup GenTexts \cup {ExampleText}

\* texts of the documents run through the whole program
PipeTexts == RawTexts(MaxPipeLen) \cup {ExampleText}

\* ---------------------------------------------------------------- state
VARIABLES
    api_key,              \* OPENAI_API_KEY is set (environment)
    pdf,                  \* the document at file_path (environment)
    pc,                   \* position of the program
    pdf_text,             \* main: pdf_text
    paragraphs,           \* split_into_paragraphs: paragraphs
    total_words,          \* split_into_paragraphs: total_words
    num_paragraphs,       \* split_into_paragraphs: num_paragraphs
    avg_words,            \* split_into_paragraphs: avg_words, a fraction
    length_threshold,     \* split_into_paragraphs: length_threshold, a fraction
    adjusted_paragraphs,  \* split_into_paragraphs: adjusted_paragraphs
    origin,               \* history: index of the paragraph each entry came from
    pidx,                 \* position of "for paragraph in paragraphs"
    words,                \* split_into_paragraphs: words
    start,                \* split_into_paragraphs: start
    topics,               \* classify_paragraphs: topics
    requests,             \* history: chunk of every request sent to the service
    outcomes,             \* history: what the service did with every request
    csv,                  \* the output file
    log,                  \* diagnostics printed so far
    exit_status           \* exit status of the process

vars == << api_key, pdf, pc, pdf_text, paragraphs, total_words, num_paragraphs,
           avg_words, length_threshold, adjusted_paragraphs, origin, pidx, words, start, topics, requests,
           outcomes, csv, log, exit_status >>

statVars == << total_words, num_paragraphs, avg_words, length_threshold >>

segVars == << paragraphs, statVars, adjusted_paragraphs, origin, pidx, words,
              start >>

clsVars == << topics, requests, outcomes >>

envVars == << api_key, pdf >>

NoFile == [written |-> FALSE, rows |-> <<>>]

InitLocals ==
    /\ paragraphs = <<>>
    /\ total_words = 0
    /\ num_paragraphs = 0
    /\ avg_words = [num |-> 0, den |-> 1]
    /\ length_threshold = [num |-> 0, den |-> 1]
    /\ adjusted_paragraphs = <<>>
    /\ origin = <<>>
    /\ pidx = 1
    /\ words = <<>>
    /\ start = 0
    /\ topics = <<>>
    /\ requests = <<>>
    /\ outcomes = <<>>
    /\ csv = NoFile
    /\ log = <<>>
    /\ exit_status = 0

\* the interpreter starts the script
Init ==
    /\ api_key \in BOOLEAN
    /\ pdf \in {[readable |-> FALSE, text |-> <<>>]}
                 \cup {[readable |-> TRUE, text |-> t] : t \in PipeTexts}
    /\ pc = "start"
    /\ pdf_text = <<>>
    /\ InitLocals

\* split_into_paragraphs is called with a text
SegInit ==
    /\ api_key = TRUE
    /\ pdf \in {[readable |-> TRUE, text |-> t] : t \in SegTexts}
    /\ pc = "split"
    /\ pdf_text = pdf.text
    /\ InitLocals

\* ------------------------------------------------------ module level
KeyNeverMissing(key) == FALSE

\* if not api_key
KeyMissing(key) == ~key

\* raise ValueError(...): the script stops with a traceback and status 1
ApiKeyMissing ==
    /\ pc = "start"
    /\ KeyMissing(api_key)
    /\ log' = Append(log, "ValueError: OpenAI API key is not set")
    /\ exit_status' = 1
    /\ pc' = "exit"
    /\ UNCHANGED << envVars, pdf_text, segVars, clsVars, csv >>

\* client = OpenAI(api_key=api_key); main() is called
ClientCreated ==
    /\ pc = "start"
    /\ ~KeyMissing(api_key)
    /\ pc' = "main"
    /\ UNCHANGED << envVars, pdf_text, segVars, clsVars, csv, log, exit_status >>

\* ---------------------------------------------------------------- main
\* pdf_text = read_pdf(file_path)
ReadPdf ==
    /\ pc = "main"
    /\ pdf.readable
    /\ pdf_text' = pdf.text
    /\ pc' = "split"
    /\ UNCHANGED << envVars, segVars, clsVars, csv, log, exit_status >>

\* read_pdf raises: the message is printed and main returns
ReadPdfFails ==
    /\ pc = "main"
    /\ ~pdf.readable
    /\ log' = Append(log, "Failed to read the PDF")
    /\ pc' = "exit"
    /\ UNCHANGED << envVars, pdf_text, segVars, clsVars, csv, exit_status >>

\* ------------------------------------------------ split_into_paragraphs
\* steps 1 and 2: the paragraph split and the statistics
SplitParagraphs ==
    /\ pc = "split"
    /\ paragraphs' = ParagraphSplit(pdf_text)
    /\ total_words' = TotalWords(paragraphs')
    /\ num_paragraphs' = Len(paragraphs')
    /\ avg_words' = AvgWords(total_words', num_paragraphs')
    /\ length_threshold' = LengthThreshold(avg_words')
    /\ adjusted_paragraphs' = <<>>
    /\ origin' = <<>>
    /\ pidx' = 1
    /\ pc' = "loop"
    /\ UNCHANGED << envVars, pdf_text, words, start, clsVars, csv, log, exit_status >>

\* one turn of "for paragraph in paragraphs", up to the while loop
ForParagraph ==
    /\ pc = "loop"
    /\ pidx <= Len(paragraphs)
    /\ LET paragraph == paragraphs[pidx]
           word_count == Len(Words(paragraph))
       IN  IF IsTooLong(word_count, length_threshold)
           THEN /\ words' = Words(paragraph)
                /\ start' = 0
                /\ pc' = "while"
                /\ UNCHANGED << adjusted_paragraphs, origin, pidx >>
           ELSE /\ adjusted_paragraphs' = Append(adjusted_paragraphs, paragraph)
                /\ origin' = Append(origin, pidx)
                /\ pidx' = pidx + 1
                /\ UNCHANGED << words, start, pc >>
    /\ UNCHANGED << envVars, pdf_text, paragraphs, statVars, clsVars, csv, log,
                    exit_status >>

\* one turn of "while start < len(words)"
WhileBody ==
    /\ pc = "while"
    /\ start < Len(words)
    /\ LET w == WindowSize(avg_words)
       IN  /\ adjusted_paragraphs' =
                 Append(adjusted_paragraphs, Join(Window(words, start, w)))
           /\ origin' = Append(origin, pidx)
           /\ start' = start + w
    /\ UNCHANGED << envVars, pc, pdf_text, paragraphs, statVars, pidx, words,
                    clsVars, csv, log, exit_status >>

\* the while condition fails: on to the next paragraph
WhileExit ==
    /\ pc = "while"
    /\ ~(start < Len(words))
    /\ pidx' = pidx + 1
    /\ pc' = "loop"
    /\ UNCHANGED << envVars, pdf_text, paragraphs, statVars, adjusted_paragraphs,
                    origin, words, start, clsVars, csv, log, exit_status >>

\* return adjusted_paragraphs
SplitReturn ==
    /\ pc = "loop"
    /\ pidx > Len(paragraphs)
    /\ pc' = "returned"
    /\ UNCHANGED << envVars, pdf_text, segVars, clsVars, csv, log, exit_status >>

\* ---------------------------------------------------------------- main
NeverEmpty(ps) == FALSE

\* if not paragraphs
EmptyResult(ps) == ps = <<>>

\* no paragraphs: the notice is printed and main returns
NoParagraphs ==
    /\ pc = "returned"
    /\ EmptyResult(adjusted_paragraphs)
    /\ log' = Append(log, "No paragraphs found in the document.")
    /\ pc' = "exit"
    /\ UNCHANGED << envVars, pdf_text, segVars, clsVars, csv, exit_status >>

\* classify_paragraphs(client, paragraphs) is called
ClassifyCall ==
    /\ pc = "returned"
    /\ ~EmptyResult(adjusted_paragraphs)
    /\ topics' = <<>>
    /\ pc' = "classify"
    /\ UNCHANGED << envVars, pdf_text, segVars, requests, outcomes, csv, log,
                    exit_status >>

\* ------------------------------------------------- classify_paragraphs
\* one turn of the loop in which the service answers with a text
ClassifyOk ==
    /\ pc = "classify"
    /\ Len(topics) < Len(adjusted_paragraphs)
    /\ \E content \in Responses :
          /\ requests' = Append(requests, adjusted_paragraphs[Len(topics) + 1])
          /\ outcomes' = Append(outcomes, [kind |-> "ok", content |-> content])
          /\ topics' = Append(topics, TopicOf(content))
    /\ UNCHANGED << envVars, pc, pdf_text, segVars, csv, log, exit_status >>

\* one turn of the loop in which the exception handler runs
ClassifyFails ==
    /\ pc = "classify"
    /\ Len(topics) < Len(adjusted_paragraphs)
    /\ \E kind \in Failures :
          /\ requests' = Append(requests, adjusted_paragraphs[Len(topics) + 1])
          /\ outcomes' = Append(outcomes, [kind |-> kind, content |-> <<>>])
          /\ topics' = Append(topics, Sentinel)
          /\ log' = Append(log, "Error processing paragraph")
    /\ UNCHANGED << envVars, pc, pdf_text, segVars, csv, exit_status >>

\* return topics; df = pd.DataFrame(...)
ClassifyReturn ==
    /\ pc = "classify"
    /\ Len(topics) = Len(adjusted_paragraphs)
    /\ pc' = "save"
    /\ UNCHANGED << envVars, pdf_text, segVars, clsVars, csv, log, exit_status >>

\* ---------------------------------------------------------------- main
\* the rows of pd.DataFrame({"news": paragraphs, "topics": topics})
DataFrame(news, tps) == [i \in 1..Len(news) |-> [news |-> news[i], topics |-> tps[i]]]

\* df.to_csv(output_path, index=False) succeeds
SaveCsv ==
    /\ pc = "save"
    /\ csv' = [written |-> TRUE, rows |-> DataFrame(adjusted_paragraphs, topics)]
    /\ log' = Append(log, "Classified results saved")
    /\ pc' = "exit"
    /\ UNCHANGED << envVars, pdf_text, segVars, clsVars, exit_status >>

\* df.to_csv raises: the message is printed and main returns
SaveCsvFails ==
    /\ pc = "save"
    /\ log' = Append(log, "Failed to save the results")
    /\ pc' = "exit"
    /\ UNCHANGED << envVars, pdf_text, segVars, clsVars, csv, exit_status >>

\* ------------------------------------------------------- specifications
SegNext ==
    \/ SplitParagraphs
    \/ ForParagraph
    \/ WhileBody
    \/ WhileExit
    \/ SplitReturn

Next ==
    \/ ApiKeyMissing
    \/ ClientCreated
    \/ ReadPdf
    \/ ReadPdfFails
    \/ SegNext
    \/ NoParagraphs
    \/ ClassifyCall
    \/ ClassifyOk
    \/ ClassifyFails
    \/ ClassifyReturn
    \/ SaveCsv
    \/ SaveCsvFails

\* the whole program
Spec == Init /\ [][Next]_vars

\* split_into_paragraphs on its own
SegSpec == SegInit /\ [][SegNext]_vars

\* ------------------------------------------------- notions of the claims
\* the entries of the output that came from paragraph k, in output order
EntriesOf(k) ==
    LET F[i \in 0..Len(adjusted_paragraphs)] ==
            IF i = 0 THEN <<>>
            ELSE IF origin[i] = k THEN Append(F[i - 1], adjusted_paragraphs[i])
            ELSE F[i - 1]
    IN  F[Len(adjusted_paragraphs)]

RECURSIVE Concat(_)
\* concatenation of a sequence of sequences
Concat(ss) == IF ss = <<>> THEN <<>> ELSE ss[1] \o Concat(Tail(ss))

\* the words of a sequence of entries, one after the other
WordsOfAll(es) == Concat([i \in 1..Len(es) |-> Words(es[i])])

WordCount(p) == Len(Words(p))

\* word count > 1.2 * (total_words / num_paragraphs), without rounding
OverThreshold(p) == 5 * WordCount(p) * num_paragraphs > 6 * total_words

AtThreshold(p) == 5 * WordCount(p) * num_paragraphs = 6 * total_words

\* floor(total_words / num_paragraphs)
FloorAvg == total_words \div num_paragraphs

SplitDone == pc = "returned"

BlankText(t) == \A i \in 1..Len(t) : IsSpace(t[i])

Failed(o) == o.kind # "ok"

\* ---------------------------------------------------------------- C1
\* C1: the topic sequence is aligned with the chunk sequence: one request
\* per chunk in order, topics[i] is "Error" if call i failed and the trimmed
\* response otherwise, and once the loop is over (also after failures, also
\* when every call failed) there are as many topics as chunks.
C1_TopicsAligned ==
    /\ Len(topics) = Len(outcomes)
    /\ Len(requests) = Len(outcomes)
    /\ Len(topics) <= Len(adjusted_paragraphs)
    /\ \A i \in 1..Len(topics) :
          /\ requests[i] = adjusted_paragraphs[i]
          /\ Failed(outcomes[i]) => topics[i] = <<"Error">>
          /\ ~Failed(outcomes[i]) => topics[i] = Strip(outcomes[i].content)
    /\ (\E i \in 1..Len(outcomes) : Failed(outcomes[i]))
          => pc \in {"classify", "save", "exit"}
    /\ (pc = "save" \/ (pc = "exit" /\ outcomes # <<>>))
          => Len(topics) = Len(adjusted_paragraphs)

\* a five-chunk run with a failure between successes and an untrimmed answer
C1_Witness ==
    /\ pc = "save"
    /\ Len(topics) = 5
    /\ outcomes[1].kind = "ok"
    /\ outcomes[2].kind = "raised"
    /\ outcomes[3].kind = "no_content"
    /\ outcomes[4].kind = "ok"
    /\ outcomes[4].content = <<" ", "Sports", "\n">>
    /\ topics[4] = <<"Sports">>

\* ---------------------------------------------------------------- C2
\* C2: the chunks of a split paragraph are consecutive in the output, the
\* output follows the order of the paragraphs, and the words of the chunks of
\* a split paragraph, one after the other, are the words of the paragraph.
C2_RoundTrip ==
    /\ Len(origin) = Len(adjusted_paragraphs)
    /\ \A i, j \in 1..Len(origin) : i < j => origin[i] <= origin[j]
    /\ SplitDone =>
          \A k \in 1..Len(paragraphs) :
              /\ \E i \in 1..Len(origin) : origin[i] = k
              /\ OverThreshold(paragraphs[k])
                    => WordsOfAll(EntriesOf(k)) = Words(paragraphs[k])

\* a split paragraph between two others
C2_Witness ==
    /\ SplitDone
    /\ Len(paragraphs) = 3
    /\ OverThreshold(paragraphs[2])
    /\ Len(EntriesOf(2)) >= 2
    /\ WordCount(adjusted_paragraphs[2]) >= 2

\* ---------------------------------------------------------------- C3
\* C3: a paragraph of at most 1.2 * mean words (mean not truncated, equality
\* included) is exactly one entry, the trimmed paragraph unchanged; a
\* paragraph is split only if its word count is strictly greater.
C3_ShortKept ==
    SplitDone =>
        \A k \in 1..Len(paragraphs) :
            /\ paragraphs[k] = Strip(paragraphs[k])
            /\ ~OverThreshold(paragraphs[k]) => EntriesOf(k) = <<paragraphs[k]>>
            /\ OverThreshold(paragraphs[k]) => Len(EntriesOf(k)) >= 2

\* a paragraph exactly at the threshold, next to other paragraphs
C3_Witness ==
    /\ SplitDone
    /\ Len(paragraphs) >= 2
    /\ \E k \in 1..Len(paragraphs) :
          /\ AtThreshold(paragraphs[k])
          /\ EntriesOf(k) = <<paragraphs[k]>>

\* ---------------------------------------------------------------- C4
\* C4 as stated: on the example document the word counts are 2, 2 and 18,
\* avg_words is 22/3, and the output has five entries, the last three being
\* windows of 7, 7 and 4 words.
C4_AsStated ==
    (SplitDone /\ pdf_text = ExampleText) =>
        /\ [k \in 1..Len(paragraphs) |-> WordCount(paragraphs[k])] = <<2, 2, 18>>
        /\ avg_words = [num |-> 22, den |-> 3]
        /\ [i \in 1..Len(adjusted_paragraphs) |-> WordCount(adjusted_paragraphs[i])]
              = <<2, 2, 7, 7, 4>>

\* C4: on the example document the word counts are 2, 2 and 16, avg_words is
\* 20/3, the threshold is 8, the first two paragraphs stay whole and the third
\* is cut into windows of 6, 6 and 4 words (window size floor(20/3) = 6), so
\* the output has five entries.
C4_Example ==
    (SplitDone /\ pdf_text = ExampleText) =>
        /\ [k \in 1..Len(paragraphs) |-> WordCount(paragraphs[k])] = <<2, 2, 16>>
        /\ avg_words = [num |-> 20, den |-> 3]
        /\ length_threshold.num = 8 * length_threshold.den
        /\ adjusted_paragraphs =
              << <<"Short", " ", "one.">>,
                 <<"Short", " ", "two.">>,
                 <<"This", " ", "is", " ", "a", " ", "much", " ", "longer", " ",
                   "paragraph">>,
                 <<"with", " ", "many", " ", "many", " ", "more", " ", "words",
                   " ", "than">>,
                 <<"the", " ", "others", " ", "combined", " ", "here.">> >>

C4_Witness ==
    /\ SplitDone
    /\ pdf_text = ExampleText
    /\ Len(adjusted_paragraphs) = 5

\* ---------------------------------------------------------------- C5
\* C5: a readable document whose text is empty or blank gives no paragraphs,
\* avg_words 0 and an empty result; the run never reaches the classifier or
\* the save step, sends no request, writes no file, raises nothing (status 0)
\* and ends with the notice as its only message.
C5_EmptyInput ==
    (api_key /\ pdf.readable /\ BlankText(pdf.text)) =>
        /\ paragraphs = <<>>
        /\ adjusted_paragraphs = <<>>
        /\ avg_words = [num |-> 0, den |-> 1]
        /\ pc \in {"start", "main", "split", "loop", "returned", "exit"}
        /\ requests = <<>>
        /\ ~csv.written
        /\ exit_status = 0
        /\ pc = "exit" => log = <<"No paragraphs found in the document.">>
        /\ pc # "exit" => log = <<>>

\* a blank, non-empty document has been processed to the end
C5_Witness ==
    /\ pc = "exit"
    /\ api_key
    /\ pdf.readable
    /\ Len(pdf.text) >= 2
    /\ BlankText(pdf.text)
    /\ num_paragraphs = 0

\* ---------------------------------------------------------------- C6
\* C6: a run without the credential or with an unreadable document never
\* sends a request and never writes the output file; the file is written
\* only after extraction, a segmentation with at least one entry and the
\* classification of every entry.
C6_NoPartialOutput ==
    /\ (~api_key \/ ~pdf.readable) =>
          /\ ~csv.written
          /\ requests = <<>>
          /\ pc \in {"start", "main", "exit"}
    /\ csv.written =>
          /\ api_key
          /\ pdf.readable
          /\ pdf_text = pdf.text
          /\ Len(adjusted_paragraphs) >= 1
          /\ Len(topics) = Len(adjusted_paragraphs)
          /\ Len(requests) = Len(adjusted_paragraphs)
          /\ csv.rows = [i \in 1..Len(topics) |->
                            [news |-> adjusted_paragraphs[i], topics |-> topics[i]]]

\* extraction has failed and the run is over
C6_Witness ==
    /\ pc = "exit"
    /\ api_key
    /\ ~pdf.readable
    /\ log = <<"Failed to read the PDF">>

\* ---------------------------------------------------------------- C7
FatalError ==
    \/ ~api_key
    \/ ~pdf.readable
    \/ \E i \in 1..Len(log) : log[i] = "Failed to save the results"

\* C7: a run that hit a fatal error (no credential, extraction failure,
\* write failure) ends with a diagnostic and a non-zero exit status, and a
\* run ends with status zero only if there was no fatal error.
C7_FatalNonZero ==
    pc = "exit" =>
        /\ FatalError => (log # <<>> /\ exit_status # 0)
        /\ exit_status = 0 => ~FatalError

\* ---------------------------------------------------------------- C8
\* C8 as stated: every label is one of the four topics or "Error".
C8_AsStated ==
    /\ \A i \in 1..Len(topics) : topics[i] \in LabelSet \cup {<<"Error">>}
    /\ \A i \in 1..Len(csv.rows) : csv.rows[i].topics \in LabelSet \cup {<<"Error">>}

\* C8: every label, in topics and in the topic column of the file, is "Error"
\* (failed call) or the trimmed response of the service taken verbatim; it
\* is one of the four topics or "Error" exactly when the call failed or the
\* trimmed response is one of them.
C8_Verbatim ==
    /\ \A i \in 1..Len(topics) :
          LET t == topics[i]
              o == outcomes[i]
          IN  /\ t = <<"Error">> \/ (~Failed(o) /\ t = Strip(o.content))
              /\ t \in LabelSet \cup {<<"Error">>}
                    <=> (Failed(o) \/ Strip(o.content) \in LabelSet \cup {<<"Error">>})
    /\ \A i \in 1..Len(csv.rows) : csv.rows[i].topics = topics[i]

\* a file with a label outside the set, a failure and a trimmed label
C8_Witness ==
    /\ csv.written
    /\ \E i, j, k \in 1..Len(csv.rows) :
          /\ csv.rows[i].topics = <<"Technology">>
          /\ csv.rows[j].topics = <<"Error">>
          /\ Failed(outcomes[j])
          /\ csv.rows[k].topics = <<"Sports">>

\* ---------------------------------------------------------------- C9
\* C9: once the paragraphs are there, each has at least one word, so with at
\* least one paragraph the window size is at least 1; every turn of the
\* while loop is taken below the word count and moves start strictly up,
\* by the window size, within the same word list.
C9_Progress ==
    [][ /\ \A k \in 1..Len(paragraphs') : WordCount(paragraphs'[k]) >= 1
        /\ num_paragraphs' > 0 => total_words' \div num_paragraphs' >= 1
        /\ pc' = "while" => num_paragraphs' > 0
        /\ (pc = "while" /\ pc' = "while") =>
              /\ start < Len(words)
              /\ start' > start
              /\ start' < Len(words) + (total_words \div num_paragraphs)
              /\ words' = words
      ]_vars

\* the loop is in the middle of a paragraph with the smallest window size
C9_Witness ==
    /\ pc = "while"
    /\ FloorAvg = 1
    /\ start >= 2
    /\ start < Len(words)

\* --------------------------------------------------------------- C10
\* C10: every entry has at least one word and at most 1.2 * mean words; of
\* the windows of a split paragraph all but the last have floor(mean) words
\* and the last has between 1 and floor(mean); the output is at least as long
\* as the paragraph list.
C10_Bounded ==
    /\ \A i \in 1..Len(adjusted_paragraphs) :
          LET n == WordCount(adjusted_paragraphs[i])
          IN  /\ n >= 1
              /\ 5 * n * num_paragraphs <= 6 * total_words
    /\ SplitDone =>
          /\ Len(adjusted_paragraphs) >= Len(paragraphs)
          /\ \A k \in 1..Len(paragraphs) :
                OverThreshold(paragraphs[k]) =>
                    LET es == EntriesOf(k)
                    IN  /\ \A i \in 1..(Len(es) - 1) : WordCount(es[i]) = FloorAvg
                        /\ WordCount(es[Len(es)]) \in 1..FloorAvg

\* a split paragraph whose last window is shorter than the others
C10_Witness ==
    /\ SplitDone
    /\ num_paragraphs >= 2
    /\ FloorAvg >= 2
    /\ \E k \in 1..Len(paragraphs) :
          /\ OverThreshold(paragraphs[k])
          /\ Len(EntriesOf(k)) >= 3
          /\ WordCount(EntriesOf(k)[Len(EntriesOf(k))]) < FloorAvg

====
